---- MODULE Spec2Model ----
(***************************************************************************)
(* Soft-delete plugin (soft_delete.go): the DeletedAt flag type, its       *)
(* Scan/Value conversions and the three statement modifiers (query filter, *)
(* update filter, delete rewriter), together with the part of the host     *)
(* ORM the modifiers call: clause merging, clause.And, the WHERE builder   *)
(* and the execution of the built statement against a table.               *)
(***************************************************************************)
EXTENDS Integers, Sequences, FiniteSets, TLC

VARIABLES schema, table, given, stmt, pc, result, recv, scan

vars == <<schema, table, given, stmt, pc, result, recv, scan>>

(***************************************************************************)
(* Bounds.                                                                 *)
(***************************************************************************)
NumRows == 2
MaxConds == 2
MaxExprs == 3
NumRecv == 3

Ids == 1..NumRows

(***************************************************************************)
(* Go values behind interface{} / driver.Value: a dynamic type and the     *)
(* value printed as text.                                                  *)
(***************************************************************************)
GoBool(b) == [type |-> "bool", val |-> IF b THEN "true" ELSE "false"]
GoNil == [type |-> "nil", val |-> ""]
GoInt(s) == [type |-> "int64", val |-> s]
GoString(s) == [type |-> "string", val |-> s]
GoBytes(s) == [type |-> "[]byte", val |-> s]

DriverValues ==
    {GoBool(TRUE), GoBool(FALSE), GoNil, GoInt("0"), GoInt("1"),
     GoString("true"), GoBytes("1")}

FlagDeleted == TRUE
FlagActived == FALSE

(***************************************************************************)
(* DeletedAt.Value and DeletedAt.Scan.  Scan returns the new receiver and  *)
(* the error ("" for nil).                                                 *)
(***************************************************************************)
Value(b) == IF b THEN [v |-> GoBool(TRUE), err |-> ""]
                 ELSE [v |-> GoBool(FALSE), err |-> ""]

ScanClearsOnError(b, value) ==
    IF value.type # "bool" THEN [b |-> FALSE, err |-> "Invalid data type for DeletedAt"]
    ELSE [b |-> value.val = "true", err |-> ""]

Scan(b, value) ==
    LET ok == value.type = "bool"
        boolVal == ok /\ value.val = "true"
    IN IF ~ok THEN [b |-> b, err |-> "Invalid data type for DeletedAt"]
       ELSE IF boolVal THEN [b |-> TRUE, err |-> ""]
       ELSE [b |-> FALSE, err |-> ""]

(***************************************************************************)
(* clause.Expression values.  One record shape for all of them:            *)
(*   Cond  - a user condition on a column (column = true)                  *)
(*   Eq    - clause.Eq{Column, Value}; a nil Value is rendered IS NULL     *)
(*   IN    - clause.IN{Column, Values}                                     *)
(*   Or    - clause.OrConditions{Exprs}                                    *)
(*   And   - clause.AndConditions{Exprs}                                   *)
(***************************************************************************)
Cond(c) == [op |-> "Cond", Column |-> c, Value |-> GoNil, Values |-> {}, Exprs |-> <<>>]
Eq(c, v) == [op |-> "Eq", Column |-> c, Value |-> v, Values |-> {}, Exprs |-> <<>>]
ClauseIN(c, vs) == [op |-> "IN", Column |-> c, Value |-> GoNil, Values |-> vs, Exprs |-> <<>>]
OrConditions(es) == [op |-> "Or", Column |-> "", Value |-> GoNil, Values |-> {}, Exprs |-> es]
AndConditions(es) == [op |-> "And", Column |-> "", Value |-> GoNil, Values |-> {}, Exprs |-> es]

IsSingleOr(e) == e.op = "Or" /\ Len(e.Exprs) = 1

\* clause.And(exprs...): the caller passes at least one expression.
And(es) ==
    IF Len(es) = 1 /\ es[1].op # "Or" THEN es[1] ELSE AndConditions(es)


(***************************************************************************)
(* SQL text of a WHERE clause, as the host's builders write it: a sequence *)
(* of tokens.  A token is a parenthesis, a joiner (AND, OR) or a           *)
(* predicate; precedence is decided only when the text is read back        *)
(* (EvalWhere below), as the database does.                                *)
(***************************************************************************)
Tok(t) == [t |-> t, e |-> Cond("")]
Pred(e) == [t |-> "pred", e |-> e]

RECURSIVE buildExprsFrom(_, _, _)
\* expr.Build for one expression (AndConditions.Build, OrConditions.Build,
\* and the leaf expressions, which write one predicate).
BuildExpr(e) ==
    IF e.op = "Or" THEN
        IF Len(e.Exprs) > 1
        THEN <<Tok("(")>> \o buildExprsFrom(e.Exprs, 1, "OR") \o <<Tok(")")>>
        ELSE buildExprsFrom(e.Exprs, 1, "OR")
    ELSE IF e.op = "And" THEN
        IF Len(e.Exprs) > 1
        THEN <<Tok("(")>> \o buildExprsFrom(e.Exprs, 1, "AND") \o <<Tok(")")>>
        ELSE buildExprsFrom(e.Exprs, 1, "AND")
    ELSE <<Pred(e)>>

\* buildExprs(exprs, builder, joinCond), from index idx on: a single-condition
\* OrConditions is joined with OR, every other expression with joinCond.
buildExprsFrom(exprs, idx, joinCond) ==
    IF idx > Len(exprs) THEN <<>>
    ELSE (IF idx > 1
          THEN <<Tok(IF IsSingleOr(exprs[idx]) THEN "OR" ELSE joinCond)>>
          ELSE <<>>)
         \o BuildExpr(exprs[idx])
         \o buildExprsFrom(exprs, idx + 1, joinCond)

buildExprs(exprs, joinCond) == buildExprsFrom(exprs, 1, joinCond)

\* Where.Build's first loop: the first expression that is not a
\* single-condition OrConditions changes places with the first one.
SwitchPosition(exprs) ==
    LET other == {i \in 1..Len(exprs) : ~IsSingleOr(exprs[i])}
    IN IF other = {} THEN exprs
       ELSE LET idx == CHOOSE i \in other : \A j \in other : i <= j
            IN IF idx = 1 THEN exprs
               ELSE [exprs EXCEPT ![1] = exprs[idx], ![idx] = exprs[1]]

\* Where.Build: a lone AndConditions is opened, the positions are switched,
\* and the expressions are written joined with AND.
WhereBuild(exprs) ==
    LET opened == IF Len(exprs) = 1 /\ exprs[1].op = "And"
                  THEN exprs[1].Exprs ELSE exprs
    IN buildExprs(SwitchPosition(opened), "AND")

(***************************************************************************)
(* Rows, and the truth of a WHERE text on a row.  A predicate on a NULL    *)
(* column is not true (comparison with NULL), IS NULL is true only of it.  *)
(***************************************************************************)
Holds(e, row) ==
    IF e.op = "Cond" THEN row[e.Column] = GoBool(TRUE)
    ELSE IF e.op = "Eq" THEN row[e.Column] = e.Value
    ELSE IF e.op = "IN" THEN row[e.Column] \in e.Values
    ELSE FALSE

RECURSIVE ParseOr(_, _, _)
RECURSIVE ParseAnd(_, _, _)
\* factor := predicate | "(" expr ")"; returns the value and the next index.
ParseFactor(toks, i, row) ==
    IF toks[i].t = "("
    THEN LET r == ParseOr(toks, i + 1, row) IN [v |-> r.v, i |-> r.i + 1]
    ELSE [v |-> Holds(toks[i].e, row), i |-> i + 1]

\* term := factor (AND factor)*
ParseAnd(toks, i, row) ==
    LET f == ParseFactor(toks, i, row)
    IN IF f.i <= Len(toks) /\ toks[f.i].t = "AND"
       THEN LET r == ParseAnd(toks, f.i + 1, row)
            IN [v |-> f.v /\ r.v, i |-> r.i]
       ELSE f

\* expr := term (OR term)*
ParseOr(toks, i, row) ==
    LET f == ParseAnd(toks, i, row)
    IN IF f.i <= Len(toks) /\ toks[f.i].t = "OR"
       THEN LET r == ParseOr(toks, f.i + 1, row)
            IN [v |-> f.v \/ r.v, i |-> r.i]
       ELSE f

\* A statement without WHERE text selects every row.
EvalWhere(toks, row) == toks = <<>> \/ ParseOr(toks, 1, row).v


(***************************************************************************)
(* schema.Field and gorm.Statement.                                        *)
(***************************************************************************)
NilField == [DBName |-> "", DefaultValue |-> "", GORMDataType |-> ""]
FlagField(default) ==
    [DBName |-> "deleted_at", DefaultValue |-> default, GORMDataType |-> "bool"]
CompanionField ==
    [DBName |-> "deleted", DefaultValue |-> "", GORMDataType |-> "bool"]

NotSet == [type |-> "unset", val |-> ""]
NoClauses ==
    [WHERE |-> <<>>, soft_delete_enabled |-> FALSE, SET |-> <<>>, UPDATE |-> FALSE]

\* SQL is the statement's buffer: the statements built into it, in order.
NoStatement ==
    [kind |-> "none", Unscoped |-> FALSE, Clauses |-> NoClauses, SQL |-> <<>>,
     HasSchema |-> TRUE, Dest |-> {}, DestCols |-> [deleted_at |-> NotSet, deleted |-> NotSet],
     ModelRef |-> "dest", ModelIds |-> {}, CanAddr |-> TRUE]

\* Statement.AddClause for a clause.Where: Where.MergeClause appends the
\* expressions to the ones the statement holds.
AddWhere(s, exprs) == [s EXCEPT !.Clauses.WHERE = @ \o exprs]

\* Statement.AddClause for a clause.Set: Set.MergeClause replaces the clause.
AddSet(s, set) == [s EXCEPT !.Clauses.SET = set]

\* Statement.SetColumn(name, value, true): the destination object's field.
SetColumn(s, name, value) == [s EXCEPT !.DestCols[name] = value]

\* Statement.Build("UPDATE", "SET", "WHERE"): the clauses the statement holds,
\* written at the end of the SQL buffer.
BuildUpdate(s) ==
    [s EXCEPT !.SQL = Append(@, [verb |-> IF s.Clauses.UPDATE THEN "UPDATE" ELSE "",
                                 set |-> s.Clauses.SET,
                                 where |-> WhereBuild(s.Clauses.WHERE)])]

\* schema.GetIdentityFieldValuesMap + schema.ToQueryValues: the non-zero
\* primary keys of the object.
IdentityValues(ids) == {i \in ids : i # 0}

(***************************************************************************)
(* The three statement modifiers.                                          *)
(***************************************************************************)
QueryClauses(f) == <<[Field |-> f]>>
UpdateClauses(f) == <<[Field |-> f]>>
getTimeType == "bool"
DeleteClauses(f) ==
    <<[Field |-> f, Flag |-> FALSE, DataType |-> getTimeType, DeleteAtField |-> NilField]>>

QueryGuardIgnoresUnscoped(s) == ~s.Clauses.soft_delete_enabled
\* The query filter's condition: not yet applied, and not Unscoped.
QueryGuard(s) == ~s.Clauses.soft_delete_enabled /\ ~s.Unscoped

NormalizeWhereSkipped(where) == where
\* The WHERE expressions wrapped into one clause.And when one of them is a
\* single-condition OrConditions.
NormalizeWhere(where) ==
    IF Len(where) >= 1 /\ \E i \in 1..Len(where) : IsSingleOr(where[i])
    THEN <<And(where)>>
    ELSE where

\* The predicate the filter adds: IS NULL for a "null" default, else = false.
FilterExpr(sd) ==
    IF sd.Field.DefaultValue = "null"
    THEN Eq(sd.Field.DBName, GoNil)
    ELSE Eq(sd.Field.DBName, GoBool(FlagActived))

\* SoftDeleteQueryClause.ModifyStatement
QueryModifyStatement(sd, s) ==
    IF QueryGuard(s) THEN
        LET s1 == [s EXCEPT !.Clauses.WHERE = NormalizeWhere(@)]
            s2 == AddWhere(s1, <<FilterExpr(sd)>>)
        IN [s2 EXCEPT !.Clauses.soft_delete_enabled = TRUE]
    ELSE s

UpdateGuardInverted(s) == Len(s.SQL) # 0 /\ ~s.Unscoped
UpdateGuard(s) == Len(s.SQL) = 0 /\ ~s.Unscoped

\* SoftDeleteUpdateClause.ModifyStatement
UpdateModifyStatement(sd, s) ==
    IF UpdateGuard(s)
    THEN QueryModifyStatement([Field |-> sd.Field], s)
    ELSE s

DeleteGuardIgnoresSQL(s) == ~s.Unscoped
DeleteGuard(s) == Len(s.SQL) = 0 /\ ~s.Unscoped

\* The value the rewriter gives the companion field.
DeleteAtValue(deleteAtField) ==
    IF deleteAtField.GORMDataType = "bool" THEN GoBool(TRUE) ELSE GoNil

DeleteSetActived(sd) ==
    <<[Column |-> sd.Field.DBName, Value |-> GoBool(FlagActived)]>>
\* The assignments of the rewritten statement: the flag first, then the
\* companion field if the clause holds one.
DeleteSet(sd) ==
    <<[Column |-> sd.Field.DBName, Value |-> GoBool(FlagDeleted)]>>
    \o (IF sd.DeleteAtField # NilField
        THEN <<[Column |-> sd.DeleteAtField.DBName,
                Value |-> DeleteAtValue(sd.DeleteAtField)]>>
        ELSE <<>>)

\* SoftDeleteDeleteClause.ModifyStatement
DeleteModifyStatement(sd, s) ==
    IF DeleteGuard(s) THEN
        LET s0 == IF sd.DeleteAtField # NilField
                  THEN SetColumn(s, sd.DeleteAtField.DBName, DeleteAtValue(sd.DeleteAtField))
                  ELSE s
            s1 == AddSet(SetColumn(s0, sd.Field.DBName, GoBool(FlagDeleted)), DeleteSet(sd))
            values1 == IdentityValues(s1.Dest)
            s2 == IF s1.HasSchema /\ values1 # {}
                  THEN AddWhere(s1, <<ClauseIN("id", values1)>>)
                  ELSE s1
            values2 == IdentityValues(s2.ModelIds)
            s3 == IF s2.HasSchema /\ s2.CanAddr /\ s2.ModelRef = "other" /\ values2 # {}
                  THEN AddWhere(s2, <<ClauseIN("id", values2)>>)
                  ELSE s2
            s4 == QueryModifyStatement([Field |-> sd.Field], s3)
            s5 == [s4 EXCEPT !.Clauses.UPDATE = TRUE]
        IN BuildUpdate(s5)
    ELSE s

(***************************************************************************)
(* The host's side of a database call: the statement the caller made, the  *)
(* callback that adds the schema's clauses, and the execution of the SQL.  *)
(***************************************************************************)
CondAlphabet ==
    {Cond("a"), Cond("b"), OrConditions(<<Cond("a")>>), OrConditions(<<Cond("b")>>),
     OrConditions(<<Cond("a"), Cond("b")>>)}

\* The conditions of the statements that are run against the table.
TableConds ==
    {Cond("a"), OrConditions(<<Cond("b")>>), OrConditions(<<Cond("a"), Cond("b")>>)}

Lists(alphabet, n) == UNION {[1..k -> alphabet] : k \in 0..n}

NewStatement(kind, unscoped, conds) ==
    [NoStatement EXCEPT !.kind = kind, !.Unscoped = unscoped, !.Clauses.WHERE = conds]

\* Destination and model objects of a delete: the destination is one record
\* (primary key 0 is the zero value); the model is the destination itself or
\* another record.
DeleteStatements ==
    {[NewStatement("delete", unscoped, conds) EXCEPT
         !.Dest = {d}, !.ModelRef = "dest", !.ModelIds = {d}] :
       unscoped \in BOOLEAN, conds \in Lists(TableConds, MaxConds), d \in 0..NumRows}
    \cup
    {[NewStatement("delete", unscoped, conds) EXCEPT
         !.Dest = {d}, !.ModelRef = "other", !.ModelIds = {m[1]}, !.CanAddr = m[2]] :
       unscoped \in BOOLEAN, conds \in Lists(TableConds, MaxConds), d \in 0..NumRows,
       m \in (Ids \X {TRUE}) \cup {<<1, FALSE>>}}

UpdateStatements ==
    {[NewStatement("update", unscoped, conds) EXCEPT
         !.Clauses.SET = <<[Column |-> "a", Value |-> GoBool(TRUE)]>>] :
       unscoped \in BOOLEAN, conds \in Lists(TableConds, MaxConds)}

QueryStatements ==
    {NewStatement("query", unscoped, conds) :
       unscoped \in BOOLEAN, conds \in Lists(TableConds, MaxConds)}

\* Query statements over every list of WHERE expressions up to MaxExprs.
FilterStatements ==
    {NewStatement("query", unscoped, conds) :
       unscoped \in BOOLEAN, conds \in Lists(CondAlphabet, MaxExprs)}

ActiveValue == IF schema.Field.DefaultValue = "null" THEN GoNil ELSE GoBool(FlagActived)

Row(i) ==
    [id |-> i, present |-> TRUE, deleted_at |-> ActiveValue,
     deleted |-> GoBool(FALSE), a |-> GoBool(FALSE), b |-> GoBool(i = 1)]

\* A row the database no longer holds.
Gone(i) ==
    [id |-> i, present |-> FALSE, deleted_at |-> GoNil,
     deleted |-> GoNil, a |-> GoNil, b |-> GoNil]

Matches(sql, t) == {i \in Ids : t[i].present /\ EvalWhere(sql.where, t[i])}

Assign(row, set) ==
    [c \in DOMAIN row |->
        LET ks == {k \in 1..Len(set) : set[k].Column = c}
        IN IF ks = {} THEN row[c]
           ELSE set[CHOOSE k \in ks : \A j \in ks : j <= k].Value]

\* The host's own build, when no modifier has filled the SQL buffer.
HostBuild(s) ==
    IF Len(s.SQL) # 0 THEN s
    ELSE IF s.kind = "query" THEN
        [s EXCEPT !.SQL = Append(@, [verb |-> "SELECT", set |-> <<>>,
                                     where |-> WhereBuild(s.Clauses.WHERE)])]
    ELSE IF s.kind = "update" THEN
        BuildUpdate([s EXCEPT !.Clauses.UPDATE = TRUE])
    ELSE
        LET values1 == IdentityValues(s.Dest)
            s1 == IF values1 # {} THEN AddWhere(s, <<ClauseIN("id", values1)>>) ELSE s
            values2 == IdentityValues(s1.ModelIds)
            s2 == IF s1.CanAddr /\ s1.ModelRef = "other" /\ values2 # {}
                  THEN AddWhere(s1, <<ClauseIN("id", values2)>>) ELSE s1
        IN [s2 EXCEPT !.SQL = Append(@, [verb |-> "DELETE", set |-> <<>>,
                                         where |-> WhereBuild(s2.Clauses.WHERE)])]

\* The table after one statement of the buffer has run.
Run(sql, t) ==
    [i \in Ids |->
        IF i \notin Matches(sql, t) \/ sql.verb = "SELECT" THEN t[i]
        ELSE IF sql.verb = "UPDATE" THEN Assign(t[i], sql.set)
        ELSE IF sql.verb = "DELETE" THEN Gone(i)
        ELSE t[i]]

RECURSIVE RunAll(_, _)
\* The table after the whole buffer has run.
RunAll(buffer, t) ==
    IF buffer = <<>> THEN t ELSE RunAll(Tail(buffer), Run(Head(buffer), t))

NoResult == [verb |-> "", rows |-> {}, before |-> <<>>]

\* callbacks.Query on a statement the caller made: the schema's QueryClauses
\* are added to it.
QueryHookOn(statements) ==
    /\ pc = "idle"
    /\ \E s \in statements :
         /\ given' = s
         /\ stmt' = QueryModifyStatement(QueryClauses(schema.Field)[1], s)
    /\ pc' = "hooked"
    /\ UNCHANGED <<schema, table, result, recv, scan>>

QueryHook == QueryHookOn(QueryStatements)

\* callbacks.Update: the schema's UpdateClauses are added to the statement.
UpdateHook ==
    /\ pc = "idle"
    /\ \E s \in UpdateStatements :
         /\ given' = s
         /\ stmt' = UpdateModifyStatement(UpdateClauses(schema.Field)[1], s)
    /\ pc' = "hooked"
    /\ UNCHANGED <<schema, table, result, recv, scan>>

\* callbacks.Delete: the schema's DeleteClauses are added to the statement.
DeleteHook ==
    /\ pc = "idle"
    /\ \E s \in DeleteStatements :
         /\ given' = s
         /\ stmt' = DeleteModifyStatement(DeleteClauses(schema.Field)[1], s)
    /\ pc' = "hooked"
    /\ UNCHANGED <<schema, table, result, recv, scan>>

\* A modifier meets a statement again before it is run: the query filter on a
\* query, the update filter on an update or on a rewritten delete, the delete
\* rewriter on a delete.
QueryHookAgain ==
    /\ pc = "hooked" /\ stmt.kind = "query"
    /\ stmt' = QueryModifyStatement(QueryClauses(schema.Field)[1], stmt)
    /\ UNCHANGED <<schema, table, given, pc, result, recv, scan>>

UpdateHookAgain ==
    /\ pc = "hooked" /\ stmt.kind \in {"update", "delete"}
    /\ stmt' = UpdateModifyStatement(UpdateClauses(schema.Field)[1], stmt)
    /\ UNCHANGED <<schema, table, given, pc, result, recv, scan>>

DeleteHookAgain ==
    /\ pc = "hooked" /\ stmt.kind = "delete"
    /\ stmt' = DeleteModifyStatement(DeleteClauses(schema.Field)[1], stmt)
    /\ UNCHANGED <<schema, table, given, pc, result, recv, scan>>

\* The rest of the callback: the host builds the SQL if the buffer is empty
\* and runs it.
Execute ==
    /\ pc = "hooked"
    /\ LET s == HostBuild(stmt)
       IN /\ stmt' = s
          /\ result' = [verb |-> s.SQL[1].verb, rows |-> Matches(s.SQL[1], table),
                        before |-> table]
          /\ table' = RunAll(s.SQL, table)
    /\ pc' = "done"
    /\ UNCHANGED <<schema, given, recv, scan>>

\* The call returns; the next one starts from a new statement.
Finish ==
    /\ pc = "done"
    /\ pc' = "idle"
    /\ stmt' = NoStatement
    /\ given' = NoStatement
    /\ result' = NoResult
    /\ UNCHANGED <<schema, table, recv, scan>>

NoScan == [op |-> "none", i |-> 0, in |-> GoNil, old |-> FALSE, err |-> "", out |-> GoNil]

InitCommon ==
    /\ \E d \in {"null", "false"} :
         schema = [Field |-> FlagField(d), Companion |-> CompanionField]
    /\ table = [i \in Ids |-> Row(i)]
    /\ stmt = NoStatement
    /\ given = NoStatement
    /\ pc = "idle"
    /\ result = NoResult
    /\ scan = NoScan

Init ==
    /\ InitCommon
    /\ recv = [i \in 1..NumRecv |-> FALSE]

Next ==
    \/ QueryHook
    \/ UpdateHook
    \/ DeleteHook
    \/ QueryHookAgain
    \/ UpdateHookAgain
    \/ DeleteHookAgain
    \/ Execute
    \/ Finish

Spec == Init /\ [][Next]_vars

(***************************************************************************)
(* The query filter alone, over every list of WHERE expressions up to      *)
(* MaxExprs.                                                               *)
(***************************************************************************)
FilterStep == QueryHookOn(FilterStatements)

FilterReset ==
    /\ pc = "hooked"
    /\ pc' = "idle"
    /\ stmt' = NoStatement
    /\ given' = NoStatement
    /\ UNCHANGED <<schema, table, result, recv, scan>>

NextWhere == FilterStep \/ FilterReset

SpecWhere == Init /\ [][NextWhere]_vars

(***************************************************************************)
(* Scan and Value on the DeletedAt fields of NumRecv records.              *)
(***************************************************************************)
ScanStep ==
    /\ \E i \in 1..NumRecv, value \in DriverValues :
         LET r == Scan(recv[i], value)
         IN /\ recv' = [recv EXCEPT ![i] = r.b]
            /\ scan' = [op |-> "Scan", i |-> i, in |-> value, old |-> recv[i],
                        err |-> r.err, out |-> GoNil]
    /\ UNCHANGED <<schema, table, given, stmt, pc, result>>

ValueStep ==
    /\ \E i \in 1..NumRecv :
         LET r == Value(recv[i])
         IN scan' = [op |-> "Value", i |-> i, in |-> GoNil, old |-> recv[i],
                     err |-> r.err, out |-> r.v]
    /\ UNCHANGED <<schema, table, given, stmt, pc, result, recv>>

InitScan ==
    /\ InitCommon
    /\ recv \in [1..NumRecv -> BOOLEAN]

NextScan == ScanStep \/ ValueStep

SpecScan == InitScan /\ [][NextScan]_vars

(***************************************************************************)
(* Properties.                                                             *)
(***************************************************************************)
sdQuery == QueryClauses(schema.Field)[1]
sdUpdate == UpdateClauses(schema.Field)[1]
sdDelete == DeleteClauses(schema.Field)[1]

Deleted == GoBool(FlagDeleted)
HasSingleOr(exprs) == \E i \in 1..Len(exprs) : IsSingleOr(exprs[i])

\* The rows a predicate is compared on: every value of the two condition
\* columns and of the flag column.
TruthRows ==
    {[id |-> 1, present |-> TRUE, deleted_at |-> f, deleted |-> GoBool(FALSE),
      a |-> GoBool(x), b |-> GoBool(y)] :
       f \in {GoNil, GoBool(FALSE), GoBool(TRUE)}, x \in BOOLEAN, y \in BOOLEAN}

\* The identity values the delete rewriter resolves for a statement.
ResolvedIds(s) ==
    IdentityValues(s.Dest)
    \cup (IF s.CanAddr /\ s.ModelRef = "other" THEN IdentityValues(s.ModelIds) ELSE {})

\* The rows the caller's own conditions select.
GivenMatches(t) ==
    {i \in Ids : t[i].present /\ EvalWhere(WhereBuild(given.Clauses.WHERE), t[i])}

Changed == {i \in Ids : table[i] # result.before[i]}

ScopedDone(kind) == pc = "done" /\ given.kind = kind /\ ~given.Unscoped

\* C1: a default-scoped query returns only rows whose flag column holds the
\* active value (NULL for a "null" default, false otherwise), never a row
\* whose flag is Deleted.
C1_QueryReturnsOnlyActive ==
    ScopedDone("query") =>
        \A i \in result.rows :
            /\ table[i].deleted_at # Deleted
            /\ IF schema.Field.DefaultValue = "null"
               THEN table[i].deleted_at = GoNil
               ELSE table[i].deleted_at = GoBool(FALSE)

\* A default-scoped query with an OR term returned rows and left out a
\* deleted row that its own conditions select.
C1_Witness ==
    /\ ScopedDone("query")
    /\ HasSingleOr(given.Clauses.WHERE)
    /\ result.rows # {}
    /\ \E j \in GivenMatches(table) \ result.rows : table[j].deleted_at = Deleted

\* C2: a delete through DeleteClauses and the delete rewriter sets the flag of
\* the rows it deletes to Deleted and, the record type having a companion
\* deletion field, sets that field to its deleted value.
C2_DeleteSetsFlagAndCompanion ==
    ScopedDone("delete") =>
        \A i \in result.rows :
            /\ table[i].deleted_at = Deleted
            /\ schema.Companion # NilField =>
                 table[i][schema.Companion.DBName] = DeleteAtValue(schema.Companion)

\* The part of C2 the code keeps: the flag of every row a default-scoped
\* delete selects is Deleted afterwards, and the row's other columns are the
\* ones it had.
DeleteSetsFlagOnly ==
    ScopedDone("delete") =>
        \A i \in result.rows :
            table[i] = [result.before[i] EXCEPT !.deleted_at = Deleted]

\* C3: a default-scoped delete of a record whose flag is already Deleted
\* affects zero rows and leaves the table unchanged.
C3_DeleteOfDeletedIsNoOp ==
    (/\ ScopedDone("delete")
     /\ \E d \in IdentityValues(given.Dest) :
          result.before[d].present /\ result.before[d].deleted_at = Deleted)
    => (result.rows = {} /\ table = result.before)

\* What holds of a repeated delete: no default-scoped delete changes a row that
\* was Deleted before it, and the same delete run again selects no row and
\* leaves the table as it is.
DeleteTwiceIsDeleteOnce ==
    ScopedDone("delete") =>
        /\ \A i \in Ids :
             result.before[i].deleted_at = Deleted => table[i] = result.before[i]
        /\ LET again == DeleteModifyStatement(sdDelete, given).SQL
           IN Matches(again[1], table) = {} /\ RunAll(again, table) = table

\* C3 without an OR term among the caller's conditions.
DeleteOfDeletedIsNoOpWithoutOr ==
    (/\ ScopedDone("delete")
     /\ ~HasSingleOr(given.Clauses.WHERE)
     /\ \E d \in IdentityValues(given.Dest) :
          result.before[d].present /\ result.before[d].deleted_at = Deleted)
    => (result.rows = {} /\ table = result.before)

\* C4: when the delete rewriter resolves at least one identity value, the
\* rewritten UPDATE changes only rows whose primary key is among the resolved
\* values, whatever conditions the statement carried.
C4_DeleteChangesOnlyResolvedRows ==
    (ScopedDone("delete") /\ ResolvedIds(given) # {}) =>
        Changed \subseteq ResolvedIds(given)

\* C4 without an OR term among the caller's conditions.
DeleteChangesOnlyResolvedRowsWithoutOr ==
    (ScopedDone("delete") /\ ResolvedIds(given) # {} /\ ~HasSingleOr(given.Clauses.WHERE)) =>
        Changed \subseteq ResolvedIds(given)

\* C5: an Unscoped statement leaves each of the three modifiers as it entered
\* it (clauses, destination columns, SQL buffer); an Unscoped query carries no
\* predicate on the flag column and returns every row its own conditions
\* select, deleted ones included.
C5_UnscopedUnchanged ==
    given.Unscoped =>
        /\ pc = "hooked" => stmt = given
        /\ (pc = "done" /\ given.kind = "query") =>
             /\ stmt.Clauses = given.Clauses
             /\ \A k \in 1..Len(stmt.SQL[1].where) :
                  stmt.SQL[1].where[k].e.Column # schema.Field.DBName
             /\ result.rows = GivenMatches(table)

\* An Unscoped query returned a deleted row.
C5_Witness ==
    /\ pc = "done" /\ given.kind = "query" /\ given.Unscoped
    /\ \E i \in result.rows : table[i].deleted_at = Deleted

\* C6: on an UPDATE statement with an empty SQL buffer and without Unscoped,
\* the update filter produces the statement the query filter produces, and the
\* UPDATE changes no row whose flag is Deleted.
C6_UpdateFilterIsQueryFilter ==
    (given.kind = "update" /\ ~given.Unscoped /\ Len(given.SQL) = 0) =>
        /\ pc = "hooked" => stmt = QueryModifyStatement(sdQuery, given)
        /\ pc = "done" =>
             /\ \A i \in result.rows : result.before[i].deleted_at = ActiveValue
             /\ \A i \in Ids :
                  result.before[i].deleted_at = Deleted => table[i] = result.before[i]

\* A default-scoped UPDATE changed rows and passed over a deleted row that its
\* own conditions select and that it would have changed.
C6_Witness ==
    /\ ScopedDone("update")
    /\ Changed # {}
    /\ \E j \in GivenMatches(result.before) :
         /\ result.before[j].deleted_at = Deleted
         /\ result.before[j].a # GoBool(TRUE)
         /\ table[j] = result.before[j]

\* C7: whenever a statement has run, the flag of every row the table still
\* holds is the one it was, or was the active value and is now Deleted; no
\* flag goes from Deleted back to the active value.
C7_FlagOnlyActiveToDeleted ==
    pc = "done" =>
        \A i \in Ids :
            table[i].present =>
                \/ table[i].deleted_at = result.before[i].deleted_at
                \/ /\ result.before[i].deleted_at = ActiveValue
                   /\ table[i].deleted_at = Deleted

\* A delete moved a row's flag from the active value to Deleted.
C7_Witness ==
    /\ pc = "done" /\ given.kind = "delete"
    /\ \E i \in Ids :
         /\ result.before[i].deleted_at = ActiveValue
         /\ table[i].deleted_at = Deleted

\* C8: Scan of a boolean sets the receiver to it without error and Value then
\* returns that boolean; Scan of anything else (nil included) returns an error
\* and leaves the receiver as it was.
C8_ScanValueRoundTrip ==
    scan.op = "Scan" =>
        IF scan.in.type = "bool"
        THEN /\ scan.err = ""
             /\ GoBool(recv[scan.i]) = scan.in
             /\ Value(recv[scan.i]) = [v |-> scan.in, err |-> ""]
        ELSE /\ scan.err # ""
             /\ recv[scan.i] = scan.old

\* Scan of nil into a receiver that held true failed and the receiver still
\* holds true.
C8_Witness ==
    /\ scan.op = "Scan" /\ scan.in = GoNil
    /\ scan.old = TRUE /\ recv[scan.i] = TRUE /\ scan.err # ""

\* C9: for every list of top-level WHERE expressions, the text built after the
\* query filter is true of exactly the rows of which the text built before it
\* is true and whose flag column holds the active value.
C9_FilterIsConjunction ==
    (pc = "hooked" /\ given.kind = "query" /\ ~given.Unscoped) =>
        \A row \in TruthRows :
            EvalWhere(WhereBuild(stmt.Clauses.WHERE), row)
              = (EvalWhere(WhereBuild(given.Clauses.WHERE), row)
                 /\ row.deleted_at = ActiveValue)


\* C9 on the lists in which no single-condition OR term stands before the
\* first expression of another kind: Where.Build leaves their order alone.
FilterIsConjunctionUnlessSwitched ==
    (/\ pc = "hooked" /\ given.kind = "query" /\ ~given.Unscoped
     /\ SwitchPosition(given.Clauses.WHERE) = given.Clauses.WHERE) =>
        \A row \in TruthRows :
            EvalWhere(WhereBuild(stmt.Clauses.WHERE), row)
              = (EvalWhere(WhereBuild(given.Clauses.WHERE), row)
                 /\ row.deleted_at = ActiveValue)

\* C10: a default-scoped DELETE ends with exactly one statement in the SQL
\* buffer, an UPDATE; once the delete rewriter has filled the buffer, the
\* update filter and the delete rewriter leave the statement as it is.
C10_DeleteBuildsOneUpdate ==
    (given.kind = "delete" /\ ~given.Unscoped /\ pc \in {"hooked", "done"}) =>
        /\ Len(stmt.SQL) = 1
        /\ stmt.SQL[1].verb = "UPDATE"
        /\ UpdateModifyStatement(sdUpdate, stmt) = stmt
        /\ DeleteModifyStatement(sdDelete, stmt) = stmt

\* A default-scoped DELETE ran as an UPDATE that changed rows.
C10_Witness ==
    /\ ScopedDone("delete")
    /\ stmt.SQL[1].verb = "UPDATE"
    /\ Changed # {}

====
